---- MODULE Spec2Model ----
(***************************************************************************)
(* Model of app.py: the password strength evaluator, the secure password   *)
(* generator and the Streamlit session (text input, Generate button,       *)
(* Analyze form, password history).                                        *)
(*                                                                         *)
(* A Python str is a sequence of Unicode code points (integers).           *)
(***************************************************************************)
EXTENDS Integers, Sequences, FiniteSets, TLC

VARIABLES
    pc,                \* position of the call under study (Eval / Gen specs)
    password,          \* the str passed to check_password_strength
    result,            \* (score, feedback, strength) returned by the last check
    length,            \* argument of generate_secure_password
    gen,               \* outcome of generate_secure_password: status, value, draws
    combined,          \* list(uppercase + lowercase + digit + symbol + rest), line 76
    password_history,  \* st.session_state.password_history
    pwd_input,         \* st.session_state.pwd_input
    widget_text,       \* text held by the browser's form field (sent on submit)
    gen_length,        \* st.session_state.gen_length
    submitted,         \* value of st.form_submit_button in the last script run
    event              \* the last UI event (type, submit, generate, length)

vars == <<pc, password, result, length, gen, combined, password_history,
          pwd_input, widget_text, gen_length, submitted, event>>

(***************************************************************************)
(* Bounds of the checked instances.                                        *)
(***************************************************************************)
MaxCore == 3      \* free characters at the start of a test password
MaxPad == 9       \* repeated characters appended to a test password
MaxGenLen == 12   \* largest length handed to the generator
MaxVaried == 1    \* filler positions drawn independently of the others
MaxSwaps == 1     \* non-trivial exchanges made by one shuffle
MaxUiLen == 8     \* largest value selected in the Length number input

(***************************************************************************)
(* Character data.                                                         *)
(***************************************************************************)
\* regular expressions of `checks`, as the set of code points one character
\* must belong to for re.search to succeed
re_upper == 65..90                              \* [A-Z]
re_lower == 97..122                             \* [a-z]
re_digit == (48..57) \cup (1632..1641)          \* \d on a str pattern: every
                                                \* Unicode decimal digit; the
                                                \* ASCII and Arabic-Indic blocks
re_symbol == {33, 64, 35, 36, 37, 94, 38, 42}   \* [!@#$%^&*]

re_search(pattern, s) == \E i \in 1..Len(s) : s[i] \in pattern

checks_swapped ==
    << [pattern |-> re_upper,  message |-> "Add uppercase letter"],
       [pattern |-> re_digit,  message |-> "Include digit"],
       [pattern |-> re_lower,  message |-> "Add lowercase letter"],
       [pattern |-> re_symbol, message |-> "Add special character"] >>

checks ==
    << [pattern |-> re_upper,  message |-> "Add uppercase letter"],
       [pattern |-> re_lower,  message |-> "Add lowercase letter"],
       [pattern |-> re_digit,  message |-> "Include digit"],
       [pattern |-> re_symbol, message |-> "Add special character"] >>

LengthMessage == "Use at least 8 characters (12+ recommended)"

(***************************************************************************)
(* check_password_strength                                                 *)
(***************************************************************************)
\* lines 16-21 with `>= 12` weakened to `> 12`
length_check_off_by_one(p) ==
    IF Len(p) > 12 THEN [score |-> 2, feedback |-> << >>]
    ELSE IF Len(p) >= 8 THEN [score |-> 1, feedback |-> << >>]
    ELSE [score |-> 0, feedback |-> <<LengthMessage>>]

\* lines 16-21 without the append of the else branch
length_check_silent(p) ==
    IF Len(p) >= 12 THEN [score |-> 2, feedback |-> << >>]
    ELSE IF Len(p) >= 8 THEN [score |-> 1, feedback |-> << >>]
    ELSE [score |-> 0, feedback |-> << >>]

\* lines 10-21: score and feedback after the length check
length_check(p) ==
    IF Len(p) >= 12 THEN [score |-> 2, feedback |-> << >>]
    ELSE IF Len(p) >= 8 THEN [score |-> 1, feedback |-> << >>]
    ELSE [score |-> 0, feedback |-> <<LengthMessage>>]

\* lines 33-37: the loop over checks, from entry k on
RECURSIVE check_loop(_, _, _, _)
check_loop(k, p, score, feedback) ==
    IF k > Len(checks) THEN [score |-> score, feedback |-> feedback]
    ELSE IF re_search(checks[k].pattern, p)
         THEN check_loop(k + 1, p, score + 1, feedback)
         ELSE check_loop(k + 1, p, score, Append(feedback, checks[k].message))

\* lines 42-47 with `score <= 5` weakened to `score < 5`
strength_level_off_by_one(score) ==
    IF score <= 2 THEN "Weak"
    ELSE IF score < 5 THEN "Moderate"
    ELSE "Strong"

\* lines 42-47
strength_level(score) ==
    IF score <= 2 THEN "Weak"
    ELSE IF score <= 5 THEN "Moderate"
    ELSE "Strong"

\* lines 9-49
check_password_strength(p) ==
    LET afterLength == length_check(p)
        afterChecks == check_loop(1, p, afterLength.score, afterLength.feedback)
    IN  [score    |-> afterChecks.score,
         feedback |-> afterChecks.feedback,
         strength |-> strength_level(afterChecks.score)]

\* no check has returned yet
NoResult == [score |-> 0, feedback |-> << >>, strength |-> "unset"]
NoGen == [status |-> "none", value |-> << >>, draws |-> 0]

(***************************************************************************)
(* Specification SpecEval: one call of check_password_strength on a        *)
(* password drawn from TestPasswords.                                      *)
(***************************************************************************)
\* 'A' 'a' '0' '!' '-' U+00C9 (E acute) U+0663 (Arabic-Indic three)
TestChars == {65, 97, 48, 33, 45, 201, 1635}

Repeat(c, n) == [i \in 1..n |-> c]

SeqsUpTo(S, n) == UNION {[1..k -> S] : k \in 0..n}

TestPasswords ==
    {core \o Repeat(c, k) : core \in SeqsUpTo(TestChars, MaxCore),
                            c \in TestChars, k \in 0..MaxPad}

UiIdle ==
    /\ password_history = << >>
    /\ pwd_input = << >>
    /\ widget_text = << >>
    /\ gen_length = 12
    /\ submitted = FALSE
    /\ event = "none"

GenIdle ==
    /\ length = 0
    /\ gen = NoGen
    /\ combined = << >>

InitEval ==
    /\ pc = "call"
    /\ password \in TestPasswords
    /\ result = NoResult
    /\ GenIdle
    /\ UiIdle

Evaluate ==
    /\ pc = "call"
    /\ result' = check_password_strength(password)
    /\ pc' = "returned"
    /\ UNCHANGED <<password, length, gen, combined, password_history,
                   pwd_input, widget_text, gen_length, submitted, event>>

NextEval == Evaluate

SpecEval == InitEval /\ [][NextEval]_vars

(***************************************************************************)
(* Properties of check_password_strength                                   *)
(***************************************************************************)
HasUpper(p) == \E i \in 1..Len(p) : p[i] \in 65..90
HasLower(p) == \E i \in 1..Len(p) : p[i] \in 97..122
HasDigit(p) == \E i \in 1..Len(p) : p[i] \in re_digit
HasSymbol(p) == \E i \in 1..Len(p) : p[i] \in {33, 35, 36, 37, 38, 42, 64, 94}

Bit(b) == IF b THEN 1 ELSE 0

ClassCount(p) == Bit(HasUpper(p)) + Bit(HasLower(p)) + Bit(HasDigit(p)) + Bit(HasSymbol(p))

LengthPoints(p) == IF Len(p) >= 12 THEN 2 ELSE IF Len(p) >= 8 THEN 1 ELSE 0

\* C1: the returned score is the length points (2 from 12 characters on, 1
\* from 8 on, else 0) plus the number of character classes present in the
\* password, and so lies in 0..6.
C1_ScoreFormula ==
    pc = "returned" =>
        /\ result.score = LengthPoints(password) + ClassCount(password)
        /\ result.score \in 0..6

C1_Witness ==
    /\ pc = "returned"
    /\ Len(password) = 12
    /\ ClassCount(password) = 4
    /\ result.score = 6

\* C2: the returned strength is Weak exactly for scores up to 2, Moderate
\* exactly for scores 3 to 5 and Strong exactly for scores from 6 on; it is
\* always one of the three.
C2_StrengthTiers ==
    pc = "returned" =>
        /\ result.strength \in {"Weak", "Moderate", "Strong"}
        /\ (result.strength = "Weak") <=> (result.score <= 2)
        /\ (result.strength = "Moderate") <=> (result.score \in 3..5)
        /\ (result.strength = "Strong") <=> (result.score >= 6)

C2_Witness ==
    /\ pc = "returned"
    /\ result.score = 5
    /\ result.strength = "Moderate"

ExpectedFeedback(p) ==
    (IF Len(p) < 8 THEN <<LengthMessage>> ELSE << >>)
    \o (IF HasUpper(p) THEN << >> ELSE <<"Add uppercase letter">>)
    \o (IF HasLower(p) THEN << >> ELSE <<"Add lowercase letter">>)
    \o (IF HasDigit(p) THEN << >> ELSE <<"Include digit">>)
    \o (IF HasSymbol(p) THEN << >> ELSE <<"Add special character">>)

\* C3: the returned feedback is the length message first iff the password has
\* fewer than 8 characters, then one message per missing class in the order
\* uppercase, lowercase, digit, symbol; its length is the number of those
\* messages.
C3_FeedbackSequence ==
    pc = "returned" =>
        /\ result.feedback = ExpectedFeedback(password)
        /\ Len(result.feedback) = Bit(Len(password) < 8) + (4 - ClassCount(password))

C3_Witness ==
    /\ pc = "returned"
    /\ Len(password) < 8
    /\ result.feedback = <<LengthMessage, "Add lowercase letter", "Include digit">>

TierMax(p) == IF Len(p) >= 12 THEN 6 ELSE IF Len(p) >= 8 THEN 5 ELSE 4

\* C4 as stated: the feedback is empty iff the score is the maximum of the
\* password's length tier (4, 5, 6) and all four classes are present.
C4_Original ==
    pc = "returned" =>
        ((result.feedback = << >>)
            <=> (result.score = TierMax(password) /\ ClassCount(password) = 4))

\* C4 amended: the feedback is empty iff the password has at least 8
\* characters and all four classes are present (the score is then 5 below 12
\* characters and 6 from 12 on); below 8 characters it is never empty.
C4_EmptyFeedback ==
    pc = "returned" =>
        /\ (result.feedback = << >>)
              <=> (Len(password) >= 8 /\ ClassCount(password) = 4)
        /\ (result.feedback = << >>) => result.score = TierMax(password)
        /\ Len(password) < 8 => result.feedback # << >>

C4_Witness ==
    /\ pc = "returned"
    /\ Len(password) < 8
    /\ ClassCount(password) = 4
    /\ result.score = 4
    /\ result.feedback = <<LengthMessage>>

(***************************************************************************)
(* generate_secure_password                                                *)
(***************************************************************************)
Min(a, b) == IF a < b THEN a ELSE b

ascii_uppercase == [i \in 1..26 |-> 64 + i]     \* string.ascii_uppercase
ascii_lowercase == [i \in 1..26 |-> 96 + i]     \* string.ascii_lowercase
ascii_letters == ascii_lowercase \o ascii_uppercase
digits == [i \in 1..10 |-> 47 + i]              \* string.digits

\* line 64 with a symbol the evaluator's pattern does not list ('-')
symbol_population_other == <<45, 64, 35, 36, 37, 94, 38, 42>>

\* line 64: '!@#$%^&*'
symbol_population == <<33, 64, 35, 36, 37, 94, 38, 42>>

\* line 70
all_chars == ascii_letters \o digits \o <<33, 64, 35, 36, 37, 94, 38, 42>>

\* random.choice(seq): the element at a random index
random_choice(population, idx) == population[idx]

\* random.choices(population, k=k): k elements at random indices
random_choices(population, k, idxs) == [j \in 1..k |-> population[idxs[j]]]

Swap(x, a, b) == [x EXCEPT ![a] = x[b], ![b] = x[a]]

\* random.shuffle with the exchange turned into a plain assignment
RECURSIVE random_shuffle_overwrite(_, _, _)
random_shuffle_overwrite(x, i, js) ==
    IF i < 1 THEN x
    ELSE random_shuffle_overwrite([x EXCEPT ![i + 1] = x[js[i] + 1]], i - 1, js)

\* random.shuffle(x): for i from len(x)-1 down to 1, exchange x[i] with x[j],
\* j = js[i] drawn from 0..i (positions counted from 0 as in Python)
RECURSIVE random_shuffle(_, _, _)
random_shuffle(x, i, js) ==
    IF i < 1 THEN x
    ELSE random_shuffle(Swap(x, i + 1, js[i] + 1), i - 1, js)

\* lines 61-76 with the digit drawn from the lowercase letters
combine_no_digit(len, rnd) ==
    LET uppercase == random_choice(ascii_uppercase, rnd.u)
        lowercase == random_choice(ascii_lowercase, rnd.l)
        digit     == random_choice(ascii_lowercase, rnd.l)
        symbol    == random_choice(symbol_population, rnd.s)
        remaining == len - 4
        rest      == random_choices(all_chars, remaining, rnd.fill)
    IN  <<uppercase, lowercase, digit, symbol>> \o rest

\* lines 61-76: the list handed to the shuffle
combine(len, rnd) ==
    LET uppercase == random_choice(ascii_uppercase, rnd.u)
        lowercase == random_choice(ascii_lowercase, rnd.l)
        digit     == random_choice(digits, rnd.d)
        symbol    == random_choice(symbol_population, rnd.s)
        remaining == len - 4
        rest      == random_choices(all_chars, remaining, rnd.fill)
    IN  <<uppercase, lowercase, digit, symbol>> \o rest

\* lines 54-78 with the guard `length < 8` weakened to `length < 7`
generate_secure_password_low_guard(len, rnd) ==
    IF len < 7
    THEN [status |-> "raised", value |-> << >>, draws |-> 0]
    ELSE LET chars == combine(len, rnd)
         IN  [status |-> "returned",
              value  |-> random_shuffle(chars, Len(chars) - 1, rnd.js),
              draws  |-> Len(chars)]

\* lines 54-78; draws counts the characters taken from the random source
generate_secure_password(len, rnd) ==
    IF len < 8
    THEN [status |-> "raised", value |-> << >>, draws |-> 0]
    ELSE LET chars == combine(len, rnd)
         IN  [status |-> "returned",
              value  |-> random_shuffle(chars, Len(chars) - 1, rnd.js),
              draws  |-> Len(chars)]

(***************************************************************************)
(* Outcomes of the random source considered for one call.                  *)
(***************************************************************************)
PickSample(population) == {1, Len(population)}

\* indices of 'a', 'A', '0' and '*' in all_chars
FillSample == {1, 27, 53, 70}

FillOutcomes(k) ==
    {varied \o Repeat(b, k - Len(varied)) :
        varied \in SeqsUpTo(FillSample, Min(MaxVaried, k)), b \in FillSample}

\* exchanges of a shuffle of n elements: the first m iterations of the loop
\* (i = n-1 down to n-m) draw any j in 0..i, the later ones draw j = i
RECURSIVE ShuffleOutcomes(_, _)
ShuffleOutcomes(n, m) ==
    IF m = 0 THEN {[i \in 1..(n - 1) |-> i]}
    ELSE IF n - m < 1 THEN ShuffleOutcomes(n, m - 1)
    ELSE {[js EXCEPT ![n - m] = j] :
             js \in ShuffleOutcomes(n, m - 1), j \in 0..(n - m)}

(***************************************************************************)
(* Specification SpecGen: one call of generate_secure_password, then the   *)
(* evaluation of the password it returned.                                 *)
(***************************************************************************)
InitGen ==
    /\ pc = "call"
    /\ length \in (0 - 1)..MaxGenLen
    /\ gen = NoGen
    /\ combined = << >>
    /\ password = << >>
    /\ result = NoResult
    /\ UiIdle

Generate ==
    /\ pc = "call"
    /\ \E u \in PickSample(ascii_uppercase), l \in PickSample(ascii_lowercase),
          d \in PickSample(digits), s \in PickSample(symbol_population),
          fill \in FillOutcomes(IF length > 4 THEN length - 4 ELSE 0),
          js \in ShuffleOutcomes(IF length > 1 THEN length ELSE 1, MaxSwaps) :
          LET rnd == [u |-> u, l |-> l, d |-> d, s |-> s, fill |-> fill, js |-> js]
          IN  /\ gen' = generate_secure_password(length, rnd)
              /\ combined' = IF gen'.status = "returned"
                             THEN combine(length, rnd) ELSE << >>
    /\ pc' = "generated"
    /\ UNCHANGED <<password, result, length, password_history, pwd_input,
                   widget_text, gen_length, submitted, event>>

CheckGenerated ==
    /\ pc = "generated"
    /\ gen.status = "returned"
    /\ password' = gen.value
    /\ result' = check_password_strength(gen.value)
    /\ pc' = "checked"
    /\ UNCHANGED <<length, gen, combined, password_history, pwd_input,
                   widget_text, gen_length, submitted, event>>

NextGen == Generate \/ CheckGenerated

SpecGen == InitGen /\ [][NextGen]_vars

(***************************************************************************)
(* Properties of generate_secure_password                                  *)
(***************************************************************************)
Uppercase == 65..90
Lowercase == 97..122
AsciiDigits == 48..57
Symbols == {33, 35, 36, 37, 38, 42, 64, 94}

Count(s, c) == Cardinality({i \in 1..Len(s) : s[i] = c})

\* C5: a returned password holds at least one uppercase letter, one lowercase
\* letter, one digit and one symbol of !@#$%^&*, and nothing outside letters,
\* digits and those symbols.
C5_AllClassesPresent ==
    gen.status = "returned" =>
        /\ \E i \in 1..Len(gen.value) : gen.value[i] \in Uppercase
        /\ \E i \in 1..Len(gen.value) : gen.value[i] \in Lowercase
        /\ \E i \in 1..Len(gen.value) : gen.value[i] \in AsciiDigits
        /\ \E i \in 1..Len(gen.value) : gen.value[i] \in Symbols
        /\ \A i \in 1..Len(gen.value) :
              gen.value[i] \in Uppercase \cup Lowercase \cup AsciiDigits \cup Symbols

\* the only digit of the password is the guaranteed one, moved by the shuffle
C5_Witness ==
    /\ gen.status = "returned"
    /\ length >= 8
    /\ Cardinality({i \in 1..Len(gen.value) : gen.value[i] \in AsciiDigits}) = 1
    /\ gen.value[3] \notin AsciiDigits

\* C6: a returned password has exactly `length` characters: the 4 guaranteed
\* ones and length - 4 fillers, and the shuffle only permutes them.
C6_ExactLength ==
    gen.status = "returned" =>
        /\ Len(gen.value) = length
        /\ Len(combined) = length
        /\ gen.draws = 4 + (length - 4)
        /\ \A i \in 1..Len(combined) :
              Count(gen.value, combined[i]) = Count(combined, combined[i])

C6_Witness ==
    /\ gen.status = "returned"
    /\ Len(gen.value) = 12
    /\ gen.value # combined

\* C7: a length below 8 (0 and negative ones included) raises before any
\* character is drawn and no password is returned; a length from 8 on never
\* raises.
C7_InvalidLength ==
    pc # "call" =>
        /\ length < 8 => /\ gen.status = "raised"
                         /\ gen.draws = 0
                         /\ gen.value = << >>
                         /\ combined = << >>
        /\ length >= 8 => gen.status = "returned"

C7_Witness ==
    /\ pc = "generated"
    /\ length = 7
    /\ gen.status = "raised"

\* C10: the evaluation of a generated password has no feedback; it scores 5
\* and is Moderate for lengths 8 to 11, scores 6 and is Strong from 12 on, and
\* is never Weak.
C10_GeneratedPassesEvaluator ==
    pc = "checked" =>
        /\ result.feedback = << >>
        /\ length \in 8..11 => (result.score = 5 /\ result.strength = "Moderate")
        /\ length >= 12 => (result.score = 6 /\ result.strength = "Strong")
        /\ result.strength # "Weak"

C10_Witness ==
    /\ pc = "checked"
    /\ length = 11
    /\ password = gen.value
    /\ result.score = 5

(***************************************************************************)
(* The Streamlit session.  Every UI event that reaches the server runs the *)
(* script top to bottom; a Generate click first runs update_password.      *)
(***************************************************************************)
\* line 214 without the slice [:4]
push_history_uncapped(p, history) == <<p>> \o history

\* line 214 with the new entry appended instead of prepended
push_history_at_tail(p, history) ==
    SubSeq(history, 1, Min(4, Len(history))) \o <<p>>

\* line 214: [password] + st.session_state.password_history[:4]
push_history(p, history) ==
    <<p>> \o SubSeq(history, 1, Min(4, Len(history)))

\* texts the user types: "" and "abc"
UiTyped == {<< >>, <<97, 98, 99>>}

\* values of the Length number input (min_value=8, value=12)
UiLengths == (8..MaxUiLen) \cup {12}

\* the random source of the session: first element of every population,
\* no exchange in the shuffle
UiRandom(n) ==
    [u |-> 1, l |-> 1, d |-> 1, s |-> 1,
     fill |-> Repeat(1, n - 4), js |-> [i \in 1..(n - 1) |-> i]]

\* lines 154-157 and the first script run
Init ==
    /\ password_history = << >>
    /\ pwd_input = << >>
    /\ widget_text = << >>
    /\ gen_length = 12
    /\ submitted = FALSE
    /\ event = "none"
    /\ password = << >>
    /\ result = NoResult
    /\ pc = "ui"
    /\ GenIdle

\* the user edits the text field of the form: nothing is sent to the server
\* before the form is submitted
TypePassword ==
    /\ \E t \in UiTyped : widget_text' = t
    /\ event' = "type"
    /\ UNCHANGED <<pc, password, result, length, gen, combined,
                   password_history, pwd_input, gen_length, submitted>>

\* "Analyze Password": the field's text becomes pwd_input and the script runs
\* with submitted = True (lines 181-188, 212-214)
SubmitForm ==
    /\ pwd_input' = widget_text
    /\ password' = widget_text
    /\ submitted' = TRUE
    /\ IF widget_text # << >>
       THEN /\ result' = check_password_strength(widget_text)
            /\ password_history' = push_history(widget_text, password_history)
       ELSE /\ result' = NoResult
            /\ UNCHANGED password_history
    /\ event' = "submit"
    /\ UNCHANGED <<pc, length, gen, combined, widget_text, gen_length>>

\* "Generate Password": update_password (lines 162-165), then the script runs
\* with submitted = False and the field shows the new pwd_input
GeneratePassword ==
    /\ LET generated_pwd == generate_secure_password(gen_length, UiRandom(gen_length))
       IN  /\ generated_pwd.status = "returned"
           /\ pwd_input' = generated_pwd.value
           /\ widget_text' = generated_pwd.value
           /\ password' = generated_pwd.value
    /\ submitted' = FALSE
    /\ result' = NoResult
    /\ event' = "generate"
    /\ UNCHANGED <<pc, length, gen, combined, password_history, gen_length>>

\* the Length number input changes (lines 192-198): the script runs with
\* submitted = False
SetLength ==
    /\ \E n \in UiLengths : gen_length' = n
    /\ password' = pwd_input
    /\ submitted' = FALSE
    /\ result' = NoResult
    /\ event' = "length"
    /\ UNCHANGED <<pc, length, gen, combined, password_history, pwd_input,
                   widget_text>>

Next == TypePassword \/ SubmitForm \/ GeneratePassword \/ SetLength

Spec == Init /\ [][Next]_vars

(***************************************************************************)
(* Properties of the password history                                      *)
(***************************************************************************)
\* C8: the history never holds more than 5 entries, and a submit of a
\* non-empty password puts it at the head, keeps the previous first 4 entries
\* in their order behind it and drops the older ones.
C8_HistoryCapped ==
    /\ [](Len(password_history) <= 5)
    /\ [][(event' = "submit" /\ widget_text # << >>) =>
            /\ Len(password_history') = Min(5, Len(password_history) + 1)
            /\ password_history'[1] = widget_text
            /\ \A i \in 2..Len(password_history') :
                  password_history'[i] = password_history[i - 1]]_vars

C8_Witness ==
    /\ event = "submit"
    /\ Len(password_history) = 5
    /\ password_history[1] = password
    /\ password_history[1] # password_history[2]
    /\ password_history[5] # password_history[1]

====
